---- MODULE Spec2Model ----
(***************************************************************************)
(* A model of wildduck-nodesdk: the request dispatcher (ApiClient) and the *)
(* resource modules that build request paths and delegate to it.           *)
(*                                                                         *)
(* Text is a sequence of one-character strings, so that concatenation,     *)
(* slicing, percent-encoding and query serialisation are computed the way  *)
(* the code computes them.  JavaScript values that the dispatcher only     *)
(* passes around (bodies, parsed JSON) are named by their source literal.  *)
(***************************************************************************)
EXTENDS Integers, Sequences, FiniteSets, TLC

VARIABLES
    apiKey,     \* ApiClient.apiKey
    apiUrl,     \* ApiClient.apiUrl (normalised by the constructor)
    calls,      \* the invocations of request(), in the order they were made
    sources,    \* the EventSource objects stream() has returned
    input,      \* the arguments a resource-module operation is applied to
                \* (under SpecOps also the constructor's apiUrl argument)
    modcall     \* what the resource-module operation did with them

vars == <<apiKey, apiUrl, calls, sources, input, modcall>>

----------------------------------------------------------------------------
(* Bounds of the model.                                                    *)

\* dispatcher invocations (get/post/put/delete/stream) in one history
MaxCalls == 2

\* code units in an identifier handed to a resource-module operation
MaxIdLen == 2

\* properties in a query-parameter object
MaxParams == 2

----------------------------------------------------------------------------
(* Text helpers.                                                           *)

endsWith(s, c) == Len(s) > 0 /\ s[Len(s)] = c

\* s.slice(0, -1)
sliceLast(s) == IF Len(s) = 0 THEN s ELSE SubSeq(s, 1, Len(s) - 1)

\* the code units of the model's texts: letters and digits stand for the
\* unreserved characters, "U+D800" is a lone (unpaired) surrogate
Reserved == {"/", "?", "#", "@", "&", "=", " ", "%", "+"}

LoneSurrogate == "U+D800"

\* the UTF-8 percent-encoding of a reserved character
pctCode(c) ==
    CASE c = "/" -> <<"%","2","F">>
      [] c = "?" -> <<"%","3","F">>
      [] c = "#" -> <<"%","2","3">>
      [] c = "@" -> <<"%","4","0">>
      [] c = "&" -> <<"%","2","6">>
      [] c = "=" -> <<"%","3","D">>
      [] c = " " -> <<"%","2","0">>
      [] c = "%" -> <<"%","2","5">>
      [] c = "+" -> <<"%","2","B">>
      [] OTHER   -> <<c>>

RECURSIVE pctEncode(_)
\* every code unit of s replaced by its pctCode
pctEncode(s) ==
    IF s = << >> THEN << >> ELSE pctCode(Head(s)) \o pctEncode(Tail(s))

RECURSIVE encodeURIText(_)
\* every code unit of s as encodeURI writes it: only " " and "%" escaped
encodeURIText(s) ==
    IF s = << >> THEN << >>
    ELSE (IF Head(s) \in {" ", "%"} THEN pctCode(Head(s)) ELSE <<Head(s)>>)
         \o encodeURIText(Tail(s))

\* encodeURI(s), which leaves the reserved characters of a URI as they are
encodeURI(s) ==
    IF \E i \in DOMAIN s : s[i] = LoneSurrogate
    THEN [thrown |-> "URIError", text |-> << >>]
    ELSE [thrown |-> "", text |-> encodeURIText(s)]

\* encodeURIComponent(s): [thrown, text]; a lone surrogate raises URIError
encodeURIComponent(s) ==
    IF \E i \in DOMAIN s : s[i] = LoneSurrogate
    THEN [thrown |-> "URIError", text |-> << >>]
    ELSE [thrown |-> "", text |-> pctEncode(s)]

\* a serialiser that escapes as encodeURI does: only " " and "%"
formEncodeUnitAsEncodeURI(c) ==
    IF c \in {" ", "%"} THEN pctCode(c) ELSE <<c>>

\* one code unit under the application/x-www-form-urlencoded serialiser
formEncodeUnit(c) ==
    CASE c = " "           -> <<"+">>
      [] c = LoneSurrogate -> <<"%","E","F","%","B","F","%","B","D">>
      [] OTHER             -> pctCode(c)

RECURSIVE formEncode(_)
\* the application/x-www-form-urlencoded serialisation of a name or a value
formEncode(s) ==
    IF s = << >> THEN << >> ELSE formEncodeUnit(Head(s)) \o formEncode(Tail(s))

Digits == <<"0","1","2","3","4","5","6","7","8","9">>

RECURSIVE decimal(_)
\* String(n) for a non-negative integer n
decimal(n) ==
    IF n < 10 THEN <<Digits[n + 1]>>
    ELSE decimal(n \div 10) \o <<Digits[(n % 10) + 1]>>

----------------------------------------------------------------------------
(* JavaScript values the dispatcher handles, by their source literal.      *)

Undefined == "undefined"

\* the values that are falsy in `body ? ... : undefined`
Falsy == {"undefined", "null", "false", "0", "''", "NaN"}

\* JSON.stringify on the values of the model
JSONstringify(v) ==
    CASE v = "{sess:'s1'}"      -> "{\"sess\":\"s1\"}"
      [] v = "{error:'no user'}" -> "{\"error\":\"no user\"}"
      [] v = "{success:true}"   -> "{\"success\":true}"
      [] v = "{}"               -> "{}"
      [] v = "{username,scope,sess,ip}" -> "{\"username\":\"u\",\"scope\":\"master\"}"
      [] v = "{username,password,scope,protocol,appId,token,sess,ip}" ->
                                   "{\"username\":\"u\",\"password\":\"p\"}"
      [] v = "false"            -> "false"
      [] v = "0"                -> "0"
      [] v = "''"               -> "\"\""
      [] OTHER                  -> Undefined

\* A response body is named by its bytes: an ASCII body by its characters, a
\* binary one by its bytes in hexadecimal.
JpegBytes == "FF D8 FF E0"

\* the UTF-8 decoding of a body, as response.text() and response.json() read
\* it: a byte that starts no valid sequence becomes U+FFFD
utf8Decode(bytes) ==
    IF bytes = JpegBytes THEN "U+FFFD U+FFFD U+FFFD U+FFFD" ELSE bytes

\* the UTF-8 encoding of a text
utf8Encode(text) ==
    IF text = "U+FFFD U+FFFD U+FFFD U+FFFD"
    THEN "EF BF BD EF BF BD EF BF BD EF BF BD" ELSE text

\* JSON.parse on the response bodies of the model; "SyntaxError" when it throws
JSONparse(text) ==
    CASE text = "{ \"error\": \"no user\" }" -> "{error:'no user'}"
      [] text = "{\"error\":\"no user\"}"    -> "{error:'no user'}"
      [] text = "{\"success\":true}"         -> "{success:true}"
      [] OTHER                               -> "SyntaxError"

----------------------------------------------------------------------------
(* Query-parameter objects: given or undefined; when given, the own        *)
(* properties in the order supplied, each with a JavaScript value.         *)

JsUndefined == [t |-> "undefined", b |-> FALSE, n |-> 0, s |-> << >>]
JsBoolean(x) == [t |-> "boolean", b |-> x, n |-> 0, s |-> << >>]
JsNumber(x) == [t |-> "number", b |-> FALSE, n |-> x, s |-> << >>]
JsString(x) == [t |-> "string", b |-> FALSE, n |-> 0, s |-> x]

NoParams == [given |-> FALSE, entries |-> << >>]

\* String(v), as the URLSearchParams constructor converts a record's values
toUSVString(v) ==
    CASE v.t = "undefined" -> <<"u","n","d","e","f","i","n","e","d">>
      [] v.t = "boolean"   -> IF v.b THEN <<"t","r","u","e">> ELSE <<"f","a","l","s","e">>
      [] v.t = "number"    -> decimal(v.n)
      [] OTHER             -> v.s

\* new URLSearchParams(params): the list of name-value pairs
URLSearchParams(params) ==
    IF params.given
    THEN [i \in DOMAIN params.entries |->
            <<params.entries[i].key, toUSVString(params.entries[i].value)>>]
    ELSE << >>

RECURSIVE serializePairsReversed(_)
\* a serialiser that writes the pairs last to first
serializePairsReversed(list) ==
    IF list = << >> THEN << >>
    ELSE formEncode(list[Len(list)][1]) \o <<"=">> \o formEncode(list[Len(list)][2])
         \o (IF Len(list) > 1
             THEN <<"&">> \o serializePairsReversed(SubSeq(list, 1, Len(list) - 1))
             ELSE << >>)

RECURSIVE serializePairs(_)
\* URLSearchParams.prototype.toString()
serializePairs(list) ==
    IF list = << >> THEN << >>
    ELSE formEncode(Head(list)[1]) \o <<"=">> \o formEncode(Head(list)[2])
         \o (IF Len(list) > 1 THEN <<"&">> \o serializePairs(Tail(list)) ELSE << >>)

\* params ? `?${new URLSearchParams(params).toString()}` : ""
queryIfParams(params) ==
    IF params.given THEN <<"?">> \o serializePairs(URLSearchParams(params)) ELSE << >>

\* query ? `?${query}` : "", with query = new URLSearchParams(params).toString()
queryIfNonEmpty(params) ==
    LET query == serializePairs(URLSearchParams(params))
    IN  IF query # << >> THEN <<"?">> \o query ELSE << >>

----------------------------------------------------------------------------
(* Inputs.                                                                 *)

ApiKeys == {"T"}

\* "https://h/api" and "https://h/api/"
BaseUrls ==
    { <<"h","t","t","p","s",":","/","/","h","/","a","p","i">>,
      <<"h","t","t","p","s",":","/","/","h","/","a","p","i","/">> }

\* "/users"
Endpoints == { <<"/","u","s","e","r","s">> }

NoHeaders == << >>

HeaderSets == { NoHeaders,
                ("X-Access-Token" :> "other") @@ ("Accept" :> "text/plain") }

ResponseTypes == {"json", "text", "arraybuffer"}

\* the payload post and put are given; get and delete pass undefined
Bodies == { "{sess:'s1'}" }

StreamParams ==
    { NoParams,
      [given |-> TRUE, entries |-> << [key |-> <<"s","e","s","s">>, value |-> JsString(<<"s","1">>)] >>] }

\* what the transport may answer
Statuses == {200, 404}

\* what fetch may reject with (the cause of the failure)
ConnectionRefused == "ECONNREFUSED"

NetworkFailures == {ConnectionRefused, "ETIMEDOUT"}

ResponseBodies == { "{ \"error\": \"no user\" }", "<html>Bad Gateway</html>" }

\* identifiers (user ids, mailbox ids, usernames, addresses)
IdAlphabet == {"a", "/", "?", "#", "@", LoneSurrogate}

Ids == UNION { [1..k -> IdAlphabet] : k \in 1..MaxIdLen }

\* "12345"
UserIds == { <<"1","2","3","4","5">> }

\* the properties a query-parameter object may hold: showHidden?: boolean,
\* limit?: number, path?: string ("sess123", "Inbox/Work", "a&b=?#")
QueryProperties ==
    { [key |-> <<"s","h","o","w","H","i","d","d","e","n">>, value |-> v] :
        v \in {JsUndefined, JsBoolean(TRUE), JsBoolean(FALSE)} }
    \cup { [key |-> <<"l","i","m","i","t">>, value |-> v] :
        v \in {JsUndefined, JsNumber(10)} }
    \cup { [key |-> <<"p","a","t","h">>, value |-> v] :
        v \in {JsUndefined, JsString(<<"s","e","s","s","1","2","3">>),
               JsString(<<"I","n","b","o","x","/","W","o","r","k">>),
               JsString(<<"a","&","b","=","?","#">>)} }

\* { path: "Inbox/Work", sess: "sess123", ip: "192.168.0.1" }
ExampleParams ==
    [given |-> TRUE, entries |->
        << [key |-> <<"p","a","t","h">>,
            value |-> JsString(<<"I","n","b","o","x","/","W","o","r","k">>)],
           [key |-> <<"s","e","s","s">>,
            value |-> JsString(<<"s","e","s","s","1","2","3">>)],
           [key |-> <<"i","p">>,
            value |-> JsString(<<"1","9","2",".","1","6","8",".","0",".","1">>)] >>]

ParamObjects ==
    { NoParams, ExampleParams } \cup
    { [given |-> TRUE, entries |-> e] :
        e \in UNION { { f \in [1..k -> QueryProperties] :
                          \A i, j \in 1..k : i # j => f[i].key # f[j].key } :
                      k \in 0..MaxParams } }

Inputs == [user : UserIds, id : Ids, params : ParamObjects]

----------------------------------------------------------------------------
(* ApiClient.                                                              *)

\* constructor: this.apiUrl
normalizeUrl(u) == IF endsWith(u, "/") THEN sliceLast(u) ELSE u

\* a RequestInit whose defaults are spread after the caller's headers
mergeHeadersDefaultsLast(key, headers) ==
    LET defaults == ("Content-Type" :> "application/json") @@ ("X-Access-Token" :> key)
    IN  [n \in DOMAIN defaults \cup DOMAIN headers |->
            IF n \in DOMAIN defaults THEN defaults[n] ELSE headers[n]]

\* the headers of the RequestInit: the defaults, then ...headers
mergeHeaders(key, headers) ==
    LET defaults == ("Content-Type" :> "application/json") @@ ("X-Access-Token" :> key)
    IN  [n \in DOMAIN defaults \cup DOMAIN headers |->
            IF n \in DOMAIN headers THEN headers[n] ELSE defaults[n]]

\* the body of the RequestInit
serializeBody(body) == IF body \notin Falsy THEN JSONstringify(body) ELSE Undefined

\* a dispatcher that keeps appending to its base URL
fetchArgsAccumulating(method, endpoint, body, headers) ==
    [ url     |-> (IF calls = << >> THEN apiUrl ELSE calls[Len(calls)].fetched[1].url)
                  \o endpoint,
      method  |-> method,
      headers |-> mergeHeaders(apiKey, headers),
      body    |-> serializeBody(body) ]

\* what request() hands to fetch: (url, options)
fetchArgs(method, endpoint, body, headers) ==
    [ url     |-> apiUrl \o endpoint,
      method  |-> method,
      headers |-> mergeHeaders(apiKey, headers),
      body    |-> serializeBody(body) ]

NoOutcome == [state |-> "pending", name |-> "", status |-> 0, detail |-> "", value |-> ""]

\* a parameter declared `responseType = "json"`: the default when undefined
orJson(responseType) == IF responseType = Undefined THEN "json" ELSE responseType

\* a request() that keeps the URL it built as the new base
requestRebasing(method, endpoint, body, headers, responseType, shape) ==
    /\ calls' = Append(calls,
          [ method       |-> method,
            endpoint     |-> endpoint,
            body         |-> body,
            headers      |-> headers,
            shape        |-> shape,
            responseType |-> orJson(responseType),
            fetched      |-> << fetchArgs(method, endpoint, body, headers) >>,
            pc           |-> "fetch",
            status       |-> 0,
            resBody      |-> "",
            failure      |-> "",
            cancelled    |-> FALSE,
            outcome      |-> NoOutcome ])
    /\ apiUrl' = apiUrl \o endpoint
    /\ UNCHANGED <<apiKey, sources>>

\* request(), up to `await fetch(url, options)`; shape is the responseType the
\* caller of the public method passed, undefined when it passed none
request(method, endpoint, body, headers, responseType, shape) ==
    /\ calls' = Append(calls,
          [ method       |-> method,
            endpoint     |-> endpoint,
            body         |-> body,
            headers      |-> headers,
            shape        |-> shape,
            responseType |-> orJson(responseType),
            fetched      |-> << fetchArgs(method, endpoint, body, headers) >>,
            pc           |-> "fetch",
            status       |-> 0,
            resBody      |-> "",
            failure      |-> "",
            cancelled    |-> FALSE,
            outcome      |-> NoOutcome ])
    /\ UNCHANGED <<apiKey, apiUrl, sources>>

\* a get that has no responseType parameter
getJsonOnly(endpoint, headers, responseType) ==
    request("GET", endpoint, Undefined, headers, Undefined, responseType)

get(endpoint, headers, responseType) ==
    request("GET", endpoint, Undefined, headers, orJson(responseType), responseType)

\* a put that sends POST
putAsPost(endpoint, body, headers) ==
    request("POST", endpoint, body, headers, Undefined, Undefined)

put(endpoint, body, headers) ==
    request("PUT", endpoint, body, headers, Undefined, Undefined)

post(endpoint, body, headers) ==
    request("POST", endpoint, body, headers, Undefined, Undefined)

delete(endpoint, headers) ==
    request("DELETE", endpoint, Undefined, headers, Undefined, Undefined)

\* response.ok
ok(status) == status >= 200 /\ status <= 299

\* a dispatcher that decodes by the requested shape without looking at the status
onResponseUnchecked(call, status, text) ==
    [call EXCEPT !.status = status, !.resBody = text, !.pc = "body"]

\* request() resumed with the Response: the status check, then the read of the
\* body that the branch taken asks for
onResponse(call, status, text) ==
    [call EXCEPT !.status = status, !.resBody = text,
                 !.pc = IF ~ok(status) THEN "error" ELSE "body"]

\* a dispatcher that retries once when fetch rejects
onFetchRejectedRetry(call, reason) ==
    IF Len(call.fetched) < 2
    THEN [call EXCEPT !.fetched = Append(@, @[1])]
    ELSE [call EXCEPT !.pc = "done", !.failure = reason,
                      !.outcome = [state |-> "rejected", name |-> "FetchError",
                                   status |-> 0, detail |-> reason, value |-> ""]]

\* a dispatcher that catches fetch's rejection and throws an Error of its own
onFetchRejectedWrapped(call, reason) ==
    [call EXCEPT !.pc = "done", !.failure = reason,
                 !.outcome = [state |-> "rejected", name |-> "Error",
                              status |-> 0, detail |-> "request failed", value |-> ""]]

\* request() resumed with fetch's rejection: the await throws what fetch
\* rejected with
onFetchRejected(call, reason) ==
    [call EXCEPT !.pc = "done", !.failure = reason,
                 !.outcome = [state |-> "rejected", name |-> "FetchError",
                              status |-> 0, detail |-> reason, value |-> ""]]

\* request() while the caller aborts: no parameter of get, post, put, delete or
\* request takes a signal and the RequestInit has none, so fetch goes on
\* waiting; cancelled only records that the caller has given up
onAbort(call) == [call EXCEPT !.cancelled = TRUE]

\* a response.json() that resolves with undefined when the body is not JSON
responseJsonLenient(text) ==
    LET parsed == JSONparse(utf8Decode(text))
    IN  IF parsed = "SyntaxError"
        THEN [state |-> "resolved", name |-> "undefined", status |-> 0,
              detail |-> "", value |-> Undefined]
        ELSE [state |-> "resolved", name |-> "json", status |-> 0,
              detail |-> "", value |-> parsed]

\* response.json(): the body decoded and parsed, or the parser's SyntaxError
responseJson(text) ==
    LET parsed == JSONparse(utf8Decode(text))
    IN  IF parsed = "SyntaxError"
        THEN [state |-> "rejected", name |-> "SyntaxError", status |-> 0,
              detail |-> "Unexpected token", value |-> ""]
        ELSE [state |-> "resolved", name |-> "json", status |-> 0,
              detail |-> "", value |-> parsed]

\* how request() settles once the body is read: on the error branch
\* `await response.json()` then the throw; otherwise the decoding asked for
outcomeOf(pc, responseType, status, text) ==
    LET json == responseJson(text)
    IN  IF pc = "error"
        THEN IF json.state = "rejected" THEN json
             ELSE [state |-> "rejected", name |-> "Error", status |-> status,
                   detail |-> JSONstringify(json.value), value |-> ""]
        ELSE CASE responseType = "arraybuffer" ->
                    [state |-> "resolved", name |-> "ArrayBuffer", status |-> 0,
                     detail |-> "", value |-> text]
               [] responseType = "text" ->
                    [state |-> "resolved", name |-> "string", status |-> 0,
                     detail |-> "", value |-> utf8Decode(text)]
               [] OTHER -> json

\* a dispatcher that keeps the Response in a field shared by all calls: a call
\* settles on the Response of the latest call that has one
onBodyShared(call) ==
    LET answered == { i \in DOMAIN calls : calls[i].status # 0 }
        last     == calls[CHOOSE i \in answered : \A j \in answered : j <= i]
    IN  [call EXCEPT !.pc = "done",
                     !.outcome = outcomeOf(call.pc, call.responseType,
                                           last.status, last.resBody)]

\* a request() that never settles when the status is not 2xx
onBodyHanging(call) ==
    IF call.pc = "error" THEN call
    ELSE [call EXCEPT !.pc = "done",
                      !.outcome = outcomeOf(call.pc, call.responseType,
                                            call.status, call.resBody)]

\* request() resumed with the body that was read
onBody(call) ==
    [call EXCEPT !.pc = "done",
                 !.outcome = outcomeOf(call.pc, call.responseType,
                                       call.status, call.resBody)]

\* new EventSource(url): the object starts connecting; closedBy tells who closed
\* it and dropped whether its connection has failed
EventSource(url) ==
    [url |-> url, headers |-> NoHeaders, readyState |-> "connecting",
     closedBy |-> "", dropped |-> FALSE]

\* stream(): the EventSource is opened on the URL alone
stream(endpoint, params) ==
    LET query == queryIfParams(params)
        url   == apiUrl \o endpoint \o query
    IN  /\ sources' = Append(sources, EventSource(url))
        /\ UNCHANGED <<apiKey, apiUrl, calls>>

\* the "open" listener stream() adds: it logs
onOpen(list, i) == list

\* an "error" listener that opens the stream again
onErrorReconnecting(list, i) == Append(list, EventSource(list[i].url))

\* the "error" listener stream() adds: it logs
onError(list, i) == list

----------------------------------------------------------------------------
(* The transport.                                                          *)

fetchResolves(c, status, text) ==
    /\ calls[c].pc = "fetch"
    /\ calls' = [calls EXCEPT ![c] = onResponse(calls[c], status, text)]
    /\ UNCHANGED <<apiKey, apiUrl, sources, input, modcall>>

fetchRejects(c, reason) ==
    /\ calls[c].pc = "fetch"
    /\ calls' = [calls EXCEPT ![c] = onFetchRejected(calls[c], reason)]
    /\ UNCHANGED <<apiKey, apiUrl, sources, input, modcall>>

bodyRead(c) ==
    /\ calls[c].pc \in {"error", "body"}
    /\ calls' = [calls EXCEPT ![c] = onBody(calls[c])]
    /\ UNCHANGED <<apiKey, apiUrl, sources, input, modcall>>

\* the caller cancels a call that is waiting for its response
callerCancels(c) ==
    /\ calls[c].pc = "fetch"
    /\ ~calls[c].cancelled
    /\ calls' = [calls EXCEPT ![c] = onAbort(calls[c])]
    /\ UNCHANGED <<apiKey, apiUrl, sources, input, modcall>>

\* the connection of a stream is established: "open" is dispatched
streamOpened(i) ==
    /\ sources[i].readyState = "connecting"
    /\ sources' = onOpen([sources EXCEPT ![i].readyState = "open"], i)
    /\ UNCHANGED <<apiKey, apiUrl, calls, input, modcall>>

\* the connection of a stream fails or the server ends it: the EventSource
\* is closed for good or is connecting again, as the failure has it, and
\* "error" is dispatched
streamDropped(i, readyState) ==
    /\ sources[i].readyState \in {"connecting", "open"}
    /\ sources' = onError([sources EXCEPT ![i].readyState = readyState,
                                          ![i].dropped = TRUE,
                                          ![i].closedBy =
                                              IF readyState = "closed"
                                              THEN "server" ELSE @], i)
    /\ UNCHANGED <<apiKey, apiUrl, calls, input, modcall>>

\* the caller calls close() on the EventSource it was returned
callerCloses(i) ==
    /\ sources[i].readyState # "closed"
    /\ sources' = [sources EXCEPT ![i].readyState = "closed", ![i].closedBy = "caller"]
    /\ UNCHANGED <<apiKey, apiUrl, calls, input, modcall>>

----------------------------------------------------------------------------
(* Resource modules: each operation builds its path and hands it to the    *)
(* ApiClient; modcall records the call made on this.client.                *)

\* the call an operation makes on this.client: the method, the path, the body
\* and the responseType it passed (undefined when it passed none) and the
\* number of arguments of the call; the operation's own promise is pending
called(op, verb, path, body, shape, nargs) ==
    modcall' = [op |-> op, verb |-> verb, path |-> path, thrown |-> "",
                body |-> body, shape |-> shape, nargs |-> nargs,
                outcome |-> NoOutcome]

\* this.client.get(path)
delegateGet(op, path) ==
    /\ called(op, "GET", path, Undefined, Undefined, 1)
    /\ get(path, NoHeaders, Undefined)
    /\ UNCHANGED input

\* this.client.get(path, {}, responseType)
delegateGetAs(op, path, responseType) ==
    /\ called(op, "GET", path, Undefined, responseType, 3)
    /\ get(path, NoHeaders, responseType)
    /\ UNCHANGED input

\* this.client.post(path, body)
delegatePost(op, path, body) ==
    /\ called(op, "POST", path, body, Undefined, 2)
    /\ post(path, body, NoHeaders)
    /\ UNCHANGED input

\* this.client.put(path, body)
delegatePut(op, path, body) ==
    /\ called(op, "PUT", path, body, Undefined, 2)
    /\ put(path, body, NoHeaders)
    /\ UNCHANGED input

\* this.client.delete(path)
delegateDelete(op, path) ==
    /\ called(op, "DELETE", path, Undefined, Undefined, 1)
    /\ delete(path, NoHeaders)
    /\ UNCHANGED input

\* this.client.stream(endpoint, params), which returns the EventSource at once
delegateStream(op, endpoint, params) ==
    /\ modcall' = [op |-> op, verb |-> "STREAM", path |-> endpoint, thrown |-> "",
                   body |-> Undefined, shape |-> Undefined, nargs |-> 2,
                   outcome |-> [state |-> "resolved", name |-> "EventSource",
                                status |-> 0, detail |-> "", value |-> ""]]
    /\ stream(endpoint, params)
    /\ UNCHANGED input

\* the operation's promise rejects before any call on this.client
throwBeforeCall(op, error) ==
    /\ modcall' = [op |-> op, verb |-> "", path |-> << >>, thrown |-> error,
                   body |-> Undefined, shape |-> Undefined, nargs |-> 0,
                   outcome |-> [state |-> "rejected", name |-> error, status |-> 0,
                                detail |-> "", value |-> ""]]
    /\ UNCHANGED <<apiKey, apiUrl, calls, sources, input>>

\* a listMailboxes whose template ends with "/"
listMailboxesTrailingSlash(userId, params) ==
    delegateGet("listMailboxes",
        <<"/","u","s","e","r","s","/">> \o userId
        \o <<"/","m","a","i","l","b","o","x","e","s","/">> \o queryIfParams(params))

\* Mailboxes.listMailboxes
listMailboxes(userId, params) ==
    delegateGet("listMailboxes",
        <<"/","u","s","e","r","s","/">> \o userId
        \o <<"/","m","a","i","l","b","o","x","e","s">> \o queryIfParams(params))

\* Mailboxes.getMailbox
getMailbox(userId, mailboxId, params) ==
    delegateGet("getMailbox",
        <<"/","u","s","e","r","s","/">> \o userId
        \o <<"/","m","a","i","l","b","o","x","e","s","/">> \o mailboxId
        \o queryIfParams(params))

\* Users.listUsers
listUsers(params) ==
    delegateGet("listUsers", <<"/","u","s","e","r","s">> \o queryIfNonEmpty(params))

\* Users.resolveUser
resolveUser(username, params) ==
    delegateGet("resolveUser",
        <<"/","u","s","e","r","s","/","r","e","s","o","l","v","e","/">> \o username
        \o queryIfParams(params))

\* Users.getUser
getUser(userId, params) ==
    delegateGet("getUser", <<"/","u","s","e","r","s","/">> \o userId \o queryIfParams(params))

\* Addresses.resolveAddressInfo
resolveAddressInfo(address, params) ==
    LET query   == queryIfParams(params)
        encoded == encodeURIComponent(address)
    IN  IF encoded.thrown # ""
        THEN throwBeforeCall("resolveAddressInfo", encoded.thrown)
        ELSE delegateGet("resolveAddressInfo",
                <<"/","a","d","d","r","e","s","s","e","s","/","r","e","s","o","l","v","e","/">>
                \o encoded.text \o query)


\* whether a JavaScript value is truthy
truthy(v) ==
    CASE v.t = "undefined" -> FALSE
      [] v.t = "boolean"   -> v.b
      [] v.t = "number"    -> v.n # 0
      [] OTHER             -> v.s # << >>

\* an || that always keeps its left operand
orElseLeft(v, d) == v

\* v || d
orElse(v, d) == IF truthy(v) THEN v ELSE d

\* data || {}
orEmptyObject(data) == IF data \in Falsy THEN "{}" ELSE data

\* the object literal { username, scope, sess, ip }
PreAuthPayload == "{username,scope,sess,ip}"

\* the object literal { username, password, scope, protocol, appId, token, sess, ip }
AuthenticatePayload == "{username,password,scope,protocol,appId,token,sess,ip}"

\* the text "me"
Me == JsString(<<"m","e">>)

\* Mailboxes.createMailbox
createMailbox(userId, data) ==
    delegatePost("createMailbox",
        <<"/","u","s","e","r","s","/">> \o userId
        \o <<"/","m","a","i","l","b","o","x","e","s">>,
        data)

\* Mailboxes.updateMailbox
updateMailbox(userId, mailboxId, updates) ==
    delegatePut("updateMailbox",
        <<"/","u","s","e","r","s","/">> \o userId
        \o <<"/","m","a","i","l","b","o","x","e","s","/">> \o mailboxId,
        updates)

\* Mailboxes.deleteMailbox
deleteMailbox(userId, mailboxId, params) ==
    delegateDelete("deleteMailbox",
        <<"/","u","s","e","r","s","/">> \o userId
        \o <<"/","m","a","i","l","b","o","x","e","s","/">> \o mailboxId
        \o queryIfParams(params))

\* Mailboxes.submitMessage
submitMessage(userId, message) ==
    delegatePost("submitMessage",
        <<"/","u","s","e","r","s","/">> \o userId
        \o <<"/","s","u","b","m","i","t">>,
        message)

\* Messages.listMessages
listMessages(userId, mailboxId, params) ==
    delegateGet("listMessages",
        <<"/","u","s","e","r","s","/">> \o userId
        \o <<"/","m","a","i","l","b","o","x","e","s","/">> \o mailboxId
        \o <<"/","m","e","s","s","a","g","e","s">> \o queryIfParams(params))

\* Messages.updateMessages
updateMessages(userId, mailboxId, data) ==
    delegatePut("updateMessages",
        <<"/","u","s","e","r","s","/">> \o userId
        \o <<"/","m","a","i","l","b","o","x","e","s","/">> \o mailboxId
        \o <<"/","m","e","s","s","a","g","e","s">>,
        data)

\* Messages.deleteMessages
deleteMessages(userId, mailboxId, params) ==
    delegateDelete("deleteMessages",
        <<"/","u","s","e","r","s","/">> \o userId
        \o <<"/","m","a","i","l","b","o","x","e","s","/">> \o mailboxId
        \o <<"/","m","e","s","s","a","g","e","s">> \o queryIfParams(params))

\* Messages.uploadMessage
uploadMessage(userId, mailboxId, data) ==
    delegatePost("uploadMessage",
        <<"/","u","s","e","r","s","/">> \o userId
        \o <<"/","m","a","i","l","b","o","x","e","s","/">> \o mailboxId
        \o <<"/","m","e","s","s","a","g","e","s">>,
        data)

\* Messages.searchMessages
searchMessages(userId, params) ==
    delegateGet("searchMessages",
        <<"/","u","s","e","r","s","/">> \o userId
        \o <<"/","s","e","a","r","c","h">> \o queryIfParams(params))

\* Messages.searchAndUpdateMessages
searchAndUpdateMessages(userId, params) ==
    delegatePost("searchAndUpdateMessages",
        <<"/","u","s","e","r","s","/">> \o userId
        \o <<"/","s","e","a","r","c","h">>,
        params)

\* Messages.getMessageInfo
getMessageInfo(userId, mailboxId, messageId, params) ==
    delegateGet("getMessageInfo",
        <<"/","u","s","e","r","s","/">> \o userId
        \o <<"/","m","a","i","l","b","o","x","e","s","/">> \o mailboxId
        \o <<"/","m","e","s","s","a","g","e","s","/">> \o decimal(messageId)
        \o queryIfParams(params))

\* Messages.updateMessage
updateMessage(userId, mailboxId, messageId, updates) ==
    delegatePut("updateMessage",
        <<"/","u","s","e","r","s","/">> \o userId
        \o <<"/","m","a","i","l","b","o","x","e","s","/">> \o mailboxId
        \o <<"/","m","e","s","s","a","g","e","s","/">> \o decimal(messageId),
        updates)

\* Messages.deleteMessage
deleteMessage(userId, mailboxId, messageId, params) ==
    delegateDelete("deleteMessage",
        <<"/","u","s","e","r","s","/">> \o userId
        \o <<"/","m","a","i","l","b","o","x","e","s","/">> \o mailboxId
        \o <<"/","m","e","s","s","a","g","e","s","/">> \o decimal(messageId)
        \o queryIfParams(params))

\* Messages.getMessageSource
getMessageSource(userId, mailboxId, messageId, params) ==
    delegateGetAs("getMessageSource",
        <<"/","u","s","e","r","s","/">> \o userId
        \o <<"/","m","a","i","l","b","o","x","e","s","/">> \o mailboxId
        \o <<"/","m","e","s","s","a","g","e","s","/">> \o decimal(messageId)
        \o <<"/","m","e","s","s","a","g","e",".","e","m","l">>
        \o queryIfParams(params),
        "arraybuffer")

\* Messages.forwardMessage
forwardMessage(userId, mailboxId, messageId, payload) ==
    delegatePost("forwardMessage",
        <<"/","u","s","e","r","s","/">> \o userId
        \o <<"/","m","a","i","l","b","o","x","e","s","/">> \o mailboxId
        \o <<"/","m","e","s","s","a","g","e","s","/">> \o decimal(messageId)
        \o <<"/","f","o","r","w","a","r","d">>,
        payload)

\* Messages.submitDraft
submitDraft(userId, mailboxId, messageId, payload) ==
    delegatePost("submitDraft",
        <<"/","u","s","e","r","s","/">> \o userId
        \o <<"/","m","a","i","l","b","o","x","e","s","/">> \o mailboxId
        \o <<"/","m","e","s","s","a","g","e","s","/">> \o decimal(messageId)
        \o <<"/","s","u","b","m","i","t">>,
        payload)

\* Messages.deleteOutboundMessage
deleteOutboundMessage(userId, queueId, params) ==
    delegateDelete("deleteOutboundMessage",
        <<"/","u","s","e","r","s","/">> \o userId
        \o <<"/","o","u","t","b","o","u","n","d","/">> \o queueId
        \o queryIfParams(params))

\* Users.createUser
createUser(userData) ==
    delegatePost("createUser",
        <<"/","u","s","e","r","s">>,
        userData)

\* Users.updateUser
updateUser(userId, updates) ==
    delegatePut("updateUser",
        <<"/","u","s","e","r","s","/">> \o userId,
        updates)

\* Users.deleteUser
deleteUser(userId, params) ==
    delegateDelete("deleteUser",
        <<"/","u","s","e","r","s","/">> \o userId \o queryIfParams(params))

\* Users.logoutUser
logoutUser(userId, data) ==
    delegatePut("logoutUser",
        <<"/","u","s","e","r","s","/">> \o userId
        \o <<"/","l","o","g","o","u","t">>,
        data)

\* Users.recalculateAllUsersQuota
recalculateAllUsersQuota(data) ==
    delegatePost("recalculateAllUsersQuota",
        <<"/","q","u","o","t","a","/","r","e","s","e","t">>,
        orEmptyObject(data))

\* Users.getRecoveryInfo
getRecoveryInfo(userId, params) ==
    delegateGet("getRecoveryInfo",
        <<"/","u","s","e","r","s","/">> \o userId
        \o <<"/","r","e","s","t","o","r","e">> \o queryIfParams(params))

\* Users.cancelDeletion
cancelDeletion(userId, data) ==
    delegatePost("cancelDeletion",
        <<"/","u","s","e","r","s","/">> \o userId
        \o <<"/","r","e","s","t","o","r","e">>,
        data)

\* Addresses.listAddresses
listAddresses(params) ==
    delegateGet("listAddresses",
        <<"/","a","d","d","r","e","s","s","e","s">> \o queryIfNonEmpty(params))

\* Addresses.createAddress
createAddress(userId, payload) ==
    delegatePost("createAddress",
        <<"/","u","s","e","r","s","/">> \o userId
        \o <<"/","a","d","d","r","e","s","s","e","s">>,
        payload)

\* Addresses.listUserAddresses
listUserAddresses(userId, params) ==
    delegateGet("listUserAddresses",
        <<"/","u","s","e","r","s","/">> \o userId
        \o <<"/","a","d","d","r","e","s","s","e","s">>
        \o queryIfNonEmpty(params))

\* Addresses.getAddress
getAddress(userId, addressId, params) ==
    delegateGet("getAddress",
        <<"/","u","s","e","r","s","/">> \o userId
        \o <<"/","a","d","d","r","e","s","s","e","s","/">> \o addressId
        \o queryIfNonEmpty(params))

\* Addresses.deleteAddress
deleteAddress(userId, addressId, params) ==
    delegateDelete("deleteAddress",
        <<"/","u","s","e","r","s","/">> \o userId
        \o <<"/","a","d","d","r","e","s","s","e","s","/">> \o addressId
        \o queryIfNonEmpty(params))

\* Addresses.updateAddress
updateAddress(userId, addressId, payload) ==
    delegatePut("updateAddress",
        <<"/","u","s","e","r","s","/">> \o userId
        \o <<"/","a","d","d","r","e","s","s","e","s","/">> \o addressId,
        payload)

\* Addresses.listAddressesFromRegister
listAddressesFromRegister(userId, params) ==
    delegateGet("listAddressesFromRegister",
        <<"/","u","s","e","r","s","/">> \o userId
        \o <<"/","a","d","d","r","e","s","s","r","e","g","i","s","t","e","r">>
        \o queryIfNonEmpty(params))

\* Addresses.createForwardedAddress
createForwardedAddress(payload) ==
    delegatePost("createForwardedAddress",
        <<"/","a","d","d","r","e","s","s","e","s","/","f","o","r","w","a","r","d","e","d">>,
        payload)

\* Addresses.updateForwardedAddress
updateForwardedAddress(addressId, payload) ==
    delegatePut("updateForwardedAddress",
        <<"/","a","d","d","r","e","s","s","e","s","/","f","o","r","w","a","r","d","e","d","/">>
        \o addressId,
        payload)

\* Addresses.deleteForwardedAddress
deleteForwardedAddress(addressId, params) ==
    delegateDelete("deleteForwardedAddress",
        <<"/","a","d","d","r","e","s","s","e","s","/","f","o","r","w","a","r","d","e","d","/">>
        \o addressId \o queryIfNonEmpty(params))

\* Addresses.getForwardedAddressInfo
getForwardedAddressInfo(addressId, params) ==
    delegateGet("getForwardedAddressInfo",
        <<"/","a","d","d","r","e","s","s","e","s","/","f","o","r","w","a","r","d","e","d","/">>
        \o addressId \o queryIfNonEmpty(params))

\* Addresses.renameDomainInAddresses: the class documents the method and
\* defines none, so the call addresses.renameDomainInAddresses(payload) throws
\* "TypeError: addresses.renameDomainInAddresses is not a function"
renameDomainInAddresses(payload) ==
    throwBeforeCall("renameDomainInAddresses", "TypeError")

\* Authentication.preAuth
preAuth(username, scope, sess, ip) ==
    delegatePost("preAuth",
        <<"/","p","r","e","a","u","t","h">>,
        PreAuthPayload)

\* Authentication.authenticate
authenticate(username, password, scope, protocol, appId, token, sess, ip) ==
    delegatePost("authenticate",
        <<"/","a","u","t","h","e","n","t","i","c","a","t","e">>,
        AuthenticatePayload)

\* Authentication.invalidateToken
invalidateToken ==
    delegateDelete("invalidateToken",
        <<"/","a","u","t","h","e","n","t","i","c","a","t","e">>)

\* Users.recalculateUserQuota
recalculateUserQuota(userId, data) ==
    LET targetUser == orElse(userId, Me)
    IN  delegatePost("recalculateUserQuota",
            <<"/","u","s","e","r","s","/">> \o toUSVString(targetUser)
            \o <<"/","q","u","o","t","a","/","r","e","s","e","t">>,
            orEmptyObject(data))

\* Users.resetPassword
resetPassword(userId, data) ==
    LET targetUser == orElse(userId, Me)
    IN  delegatePost("resetPassword",
            <<"/","u","s","e","r","s","/">> \o toUSVString(targetUser)
            \o <<"/","p","a","s","s","w","o","r","d","/","r","e","s","e","t">>,
            orEmptyObject(data))

\* Users.openChangeStream
openChangeStream(userId, params) ==
    delegateStream("openChangeStream",
        <<"/","u","s","e","r","s","/">> \o userId \o <<"/","u","p","d","a","t","e","s">>, params)

\* Authentication.listAuthEvents
listAuthEvents(user, params, useOwnToken) ==
    LET resolvedUser == IF truthy(useOwnToken) THEN Me ELSE user
    IN  delegateGet("listAuthEvents",
            <<"/","u","s","e","r","s","/">> \o toUSVString(resolvedUser)
            \o <<"/","a","u","t","h","l","o","g">> \o queryIfNonEmpty(params))

\* Authentication.getAuthEvent
getAuthEvent(user, event, params, useOwnToken) ==
    LET resolvedUser == IF truthy(useOwnToken) THEN Me ELSE user
    IN  delegateGet("getAuthEvent",
            <<"/","u","s","e","r","s","/">> \o toUSVString(resolvedUser)
            \o <<"/","a","u","t","h","l","o","g","/">> \o event
            \o queryIfNonEmpty(params))

\* a downloadAttachment that asks for the text shape whatever the flag
downloadAttachmentAsText(userId, mailboxId, messageId, attachmentId, sendAsString) ==
    LET endpoint == <<"/","u","s","e","r","s","/">> \o userId
                    \o <<"/","m","a","i","l","b","o","x","e","s","/">> \o mailboxId
                    \o <<"/","m","e","s","s","a","g","e","s","/">> \o decimal(messageId)
                    \o <<"/","a","t","t","a","c","h","m","e","n","t","s","/">>
                    \o attachmentId
        query    == IF truthy(sendAsString)
                    THEN <<"?","s","e","n","d","A","s","S","t","r","i","n","g","=","t","r","u","e">>
                    ELSE << >>
    IN  delegateGetAs("downloadAttachment", endpoint \o query, "text")

\* Messages.downloadAttachment, up to `await this.client.get(...)`
downloadAttachment(userId, mailboxId, messageId, attachmentId, sendAsString) ==
    LET endpoint == <<"/","u","s","e","r","s","/">> \o userId
                    \o <<"/","m","a","i","l","b","o","x","e","s","/">> \o mailboxId
                    \o <<"/","m","e","s","s","a","g","e","s","/">> \o decimal(messageId)
                    \o <<"/","a","t","t","a","c","h","m","e","n","t","s","/">>
                    \o attachmentId
        query    == IF truthy(sendAsString)
                    THEN <<"?","s","e","n","d","A","s","S","t","r","i","n","g","=","t","r","u","e">>
                    ELSE << >>
        responseType == IF truthy(sendAsString) THEN "text" ELSE "arraybuffer"
    IN  delegateGetAs("downloadAttachment", endpoint \o query, responseType)

\* a Buffer made from the text the bytes decode to
BufferFromText(response) ==
    [response EXCEPT !.name = "Buffer", !.value = utf8Encode(utf8Decode(@))]

\* Buffer.from(arrayBuffer): a Buffer over the bytes of the ArrayBuffer
BufferFrom(response) == [response EXCEPT !.name = "Buffer"]

\* Messages.downloadAttachment, resumed with the response
downloadAttachmentReturn(sendAsString, response) ==
    IF truthy(sendAsString) THEN response ELSE BufferFrom(response)

\* an operation that catches a rejection and resolves with undefined
returnedSwallowing(op, sendAsString, settled) ==
    IF settled.state = "rejected"
    THEN [state |-> "resolved", name |-> "undefined", status |-> 0,
          detail |-> "", value |-> Undefined]
    ELSE settled

\* how the operation's promise settles when the call on this.client settles:
\* `return this.client...` adopts the outcome; downloadAttachment awaits it,
\* so a rejection is thrown on and a value goes through its last lines
returned(op, sendAsString, settled) ==
    IF op = "downloadAttachment" /\ settled.state = "resolved"
    THEN downloadAttachmentReturn(sendAsString, settled)
    ELSE settled

----------------------------------------------------------------------------
(* The dispatcher under concurrent callers.                                *)

NoInput == [user |-> << >>, id |-> << >>, params |-> NoParams]

NoModcall ==
    [op |-> "none", verb |-> "", path |-> << >>, thrown |-> "", body |-> Undefined,
     shape |-> Undefined, nargs |-> 0, outcome |-> NoOutcome]

CanCall == Len(calls) + Len(sources) < MaxCalls

Init ==
    /\ apiKey \in ApiKeys
    /\ \E u \in BaseUrls : apiUrl = normalizeUrl(u)
    /\ calls = << >>
    /\ sources = << >>
    /\ input = NoInput
    /\ modcall = NoModcall

Next ==
    \/ \E e \in Endpoints, p \in StreamParams :
          CanCall /\ stream(e, p) /\ UNCHANGED <<input, modcall>>
    \/ \E e \in Endpoints, h \in HeaderSets, rt \in ResponseTypes :
          CanCall /\ get(e, h, rt) /\ UNCHANGED <<input, modcall>>
    \/ \E e \in Endpoints, b \in Bodies, h \in HeaderSets :
          CanCall /\ post(e, b, h) /\ UNCHANGED <<input, modcall>>
    \/ \E e \in Endpoints, b \in Bodies, h \in HeaderSets :
          CanCall /\ put(e, b, h) /\ UNCHANGED <<input, modcall>>
    \/ \E e \in Endpoints, h \in HeaderSets :
          CanCall /\ delete(e, h) /\ UNCHANGED <<input, modcall>>
    \/ \E c \in DOMAIN calls, s \in Statuses, t \in ResponseBodies : fetchResolves(c, s, t)
    \/ \E c \in DOMAIN calls : fetchRejects(c, ConnectionRefused)
    \/ \E c \in DOMAIN calls : bodyRead(c)

Spec == Init /\ [][Next]_vars

----------------------------------------------------------------------------
(* The dispatcher under a transport that eventually answers or fails every *)
(* request it was handed, and whose bodies are eventually read.            *)

\* the transport answers or fails the request of call c
transportCompletes(c) ==
    /\ c \in DOMAIN calls
    /\ \/ \E s \in Statuses, t \in ResponseBodies : fetchResolves(c, s, t)
       \/ fetchRejects(c, ConnectionRefused)

\* the body of the response to call c is read to its end
bodyCompletes(c) == c \in DOMAIN calls /\ bodyRead(c)

\* get, post, put and delete called with no headers of the caller's
NextFair ==
    \/ \E e \in Endpoints, rt \in ResponseTypes :
          CanCall /\ get(e, NoHeaders, rt) /\ UNCHANGED <<input, modcall>>
    \/ \E e \in Endpoints, b \in Bodies :
          CanCall /\ post(e, b, NoHeaders) /\ UNCHANGED <<input, modcall>>
    \/ \E e \in Endpoints, b \in Bodies :
          CanCall /\ put(e, b, NoHeaders) /\ UNCHANGED <<input, modcall>>
    \/ \E e \in Endpoints :
          CanCall /\ delete(e, NoHeaders) /\ UNCHANGED <<input, modcall>>
    \/ \E c \in DOMAIN calls : transportCompletes(c)
    \/ \E c \in DOMAIN calls : bodyCompletes(c)

SpecFair ==
    /\ Init
    /\ [][NextFair]_vars
    /\ \A c \in 1..MaxCalls : WF_vars(transportCompletes(c)) /\ WF_vars(bodyCompletes(c))

----------------------------------------------------------------------------
(* One resource-module operation applied to arguments drawn at the start.  *)

InitModules ==
    /\ apiKey \in ApiKeys
    /\ \E u \in BaseUrls : apiUrl = normalizeUrl(u)
    /\ calls = << >>
    /\ sources = << >>
    /\ input \in Inputs
    /\ modcall = NoModcall

NotCalled == modcall.op = "none"

NextModules ==
    \/ NotCalled /\ listMailboxes(input.id, input.params)
    \/ NotCalled /\ getMailbox(input.user, input.id, input.params)
    \/ NotCalled /\ listUsers(input.params)
    \/ NotCalled /\ resolveUser(input.id, input.params)
    \/ NotCalled /\ getUser(input.id, input.params)
    \/ NotCalled /\ resolveAddressInfo(input.id, input.params)

SpecModules == InitModules /\ [][NextModules]_vars

----------------------------------------------------------------------------
(* One operation of the SDK applied to arguments drawn at the start, on a   *)
(* client built from a base URL drawn at the start, followed until the      *)
(* operation's promise settles.                                             *)

\* trailing "/" of a base URL
MaxSlashes == 2

\* "https://h/api" followed by 0..MaxSlashes "/"
AnyBaseUrls ==
    { <<"h","t","t","p","s",":","/","/","h","/","a","p","i">> \o [i \in 1..n |-> "/"] :
        n \in 0..MaxSlashes }

\* identifiers of ordinary alphanumerics
Alphanumerics == {"a", "1"}

AlnumIds ==
    UNION { [1..k -> Alphanumerics] : k \in 1..MaxIdLen }
    \cup UserIds \cup { <<"u","s","e","r","1","2","3">> }

\* the user argument: a string (possibly empty) or undefined
OpUserIds == { JsUndefined, JsString(<< >>) } \cup { JsString(i) : i \in AlnumIds }

\* the optional boolean argument (sendAsString, useOwnToken)
Flags == { JsUndefined, JsBoolean(TRUE), JsBoolean(FALSE) }

\* the optional query-parameter object: absent, {} or { sess: "s1" }
OpParams == StreamParams \cup { [given |-> TRUE, entries |-> << >>] }

\* the optional payload
OpBodies == Bodies \cup { Undefined }

Mailbox456 == <<"m","a","i","l","b","o","x","4","5","6">>

MessageId == 789

AttachmentId == <<"a","t","t","a","c","h","m","e","n","t","0","0","1">>

AddressId == <<"a","d","d","r","e","s","s","1">>

QueueId == <<"q","u","e","u","e","1">>

EventId == <<"e","v","e","n","t","1">>

\* the bodies post and put may be handed directly: an object, false, 0, ""
SuppliedBodies == Bodies \cup {"false", "0", "''"}

\* "/status"
StatusEndpoint == <<"/","s","t","a","t","u","s">>

\* the bodies the server may answer with: JSON, HTML, binary
OpResponseBodies == { "{\"success\":true}", "<html>Bad Gateway</html>", JpegBytes }

OpInputs ==
    [apiUrl : AnyBaseUrls, userId : OpUserIds, flag : Flags, params : OpParams,
     data : OpBodies]

InitOps ==
    /\ apiKey \in ApiKeys
    /\ input \in OpInputs
    /\ apiUrl = normalizeUrl(input.apiUrl)
    /\ calls = << >>
    /\ sources = << >>
    /\ modcall = NoModcall

\* the operation takes the user as a string
StringUser == input.userId.t = "string"

\* fetch rejects: request() throws and the operation's promise settles with it
operationRejected(c, reason) ==
    /\ calls[c].pc = "fetch"
    /\ calls' = [calls EXCEPT ![c] = onFetchRejected(calls[c], reason)]
    /\ modcall' = [modcall EXCEPT
                      !.outcome = returned(modcall.op, input.flag, calls'[c].outcome)]
    /\ UNCHANGED <<apiKey, apiUrl, sources, input>>

\* the body is read: request() settles and the operation's promise with it
operationSettled(c) ==
    /\ calls[c].pc \in {"error", "body"}
    /\ calls' = [calls EXCEPT ![c] = onBody(calls[c])]
    /\ modcall' = [modcall EXCEPT
                      !.outcome = returned(modcall.op, input.flag, calls'[c].outcome)]
    /\ UNCHANGED <<apiKey, apiUrl, sources, input>>

NextOps ==
    \/ NotCalled /\ StringUser /\ listMailboxes(input.userId.s, input.params)
    \/ NotCalled /\ StringUser
          /\ getMailbox(input.userId.s, Mailbox456, input.params)
    \/ NotCalled /\ listUsers(input.params)
    \/ NotCalled /\ StringUser /\ resolveUser(input.userId.s, input.params)
    \/ NotCalled /\ StringUser /\ getUser(input.userId.s, input.params)
    \/ NotCalled /\ StringUser
          /\ resolveAddressInfo(input.userId.s, input.params)
    \/ NotCalled /\ StringUser /\ createMailbox(input.userId.s, input.data)
    \/ NotCalled /\ StringUser
          /\ updateMailbox(input.userId.s, Mailbox456, input.data)
    \/ NotCalled /\ StringUser
          /\ deleteMailbox(input.userId.s, Mailbox456, input.params)
    \/ NotCalled /\ StringUser /\ submitMessage(input.userId.s, input.data)
    \/ NotCalled /\ StringUser
          /\ listMessages(input.userId.s, Mailbox456, input.params)
    \/ NotCalled /\ StringUser
          /\ updateMessages(input.userId.s, Mailbox456, input.data)
    \/ NotCalled /\ StringUser
          /\ deleteMessages(input.userId.s, Mailbox456, input.params)
    \/ NotCalled /\ StringUser
          /\ uploadMessage(input.userId.s, Mailbox456, input.data)
    \/ NotCalled /\ StringUser /\ searchMessages(input.userId.s, input.params)
    \/ NotCalled /\ StringUser
          /\ searchAndUpdateMessages(input.userId.s, input.data)
    \/ NotCalled /\ StringUser
          /\ getMessageInfo(input.userId.s, Mailbox456, MessageId, input.params)
    \/ NotCalled /\ StringUser
          /\ updateMessage(input.userId.s, Mailbox456, MessageId, input.data)
    \/ NotCalled /\ StringUser
          /\ deleteMessage(input.userId.s, Mailbox456, MessageId, input.params)
    \/ NotCalled /\ StringUser
          /\ getMessageSource(input.userId.s, Mailbox456, MessageId, input.params)
    \/ NotCalled /\ StringUser
          /\ forwardMessage(input.userId.s, Mailbox456, MessageId, input.data)
    \/ NotCalled /\ StringUser
          /\ submitDraft(input.userId.s, Mailbox456, MessageId, input.data)
    \/ NotCalled /\ StringUser
          /\ deleteOutboundMessage(input.userId.s, QueueId, input.params)
    \/ NotCalled /\ createUser(input.data)
    \/ NotCalled /\ StringUser /\ updateUser(input.userId.s, input.data)
    \/ NotCalled /\ StringUser /\ deleteUser(input.userId.s, input.params)
    \/ NotCalled /\ StringUser /\ logoutUser(input.userId.s, input.data)
    \/ NotCalled /\ recalculateAllUsersQuota(input.data)
    \/ NotCalled /\ StringUser /\ getRecoveryInfo(input.userId.s, input.params)
    \/ NotCalled /\ StringUser /\ cancelDeletion(input.userId.s, input.data)
    \/ NotCalled /\ listAddresses(input.params)
    \/ NotCalled /\ StringUser /\ createAddress(input.userId.s, input.data)
    \/ NotCalled /\ StringUser
          /\ listUserAddresses(input.userId.s, input.params)
    \/ NotCalled /\ StringUser
          /\ getAddress(input.userId.s, AddressId, input.params)
    \/ NotCalled /\ StringUser
          /\ deleteAddress(input.userId.s, AddressId, input.params)
    \/ NotCalled /\ StringUser
          /\ updateAddress(input.userId.s, AddressId, input.data)
    \/ NotCalled /\ StringUser
          /\ listAddressesFromRegister(input.userId.s, input.params)
    \/ NotCalled /\ createForwardedAddress(input.data)
    \/ NotCalled /\ updateForwardedAddress(AddressId, input.data)
    \/ NotCalled /\ deleteForwardedAddress(AddressId, input.params)
    \/ NotCalled /\ getForwardedAddressInfo(AddressId, input.params)
    \/ NotCalled /\ StringUser
          /\ preAuth(input.userId.s, Undefined, Undefined, Undefined)
    \/ NotCalled /\ StringUser
          /\ authenticate(input.userId.s, Undefined, Undefined, Undefined,
                          Undefined, Undefined, Undefined, Undefined)
    \/ NotCalled /\ invalidateToken
    \/ NotCalled /\ StringUser
          /\ openChangeStream(input.userId.s, input.params)
    \/ NotCalled /\ recalculateUserQuota(input.userId, input.data)
    \/ NotCalled /\ resetPassword(input.userId, input.data)
    \/ NotCalled /\ listAuthEvents(input.userId, input.params, input.flag)
    \/ NotCalled /\ getAuthEvent(input.userId, EventId, input.params, input.flag)
    \/ NotCalled /\ StringUser
          /\ downloadAttachment(input.userId.s, Mailbox456, MessageId, AttachmentId,
                                input.flag)
    \/ NotCalled /\ input.data \in Bodies /\ renameDomainInAddresses(input.data)
    \/ \E rt \in ResponseTypes : NotCalled /\ delegateGetAs("get", StatusEndpoint, rt)
    \/ \E b \in SuppliedBodies : NotCalled /\ delegatePost("post", StatusEndpoint, b)
    \/ \E b \in SuppliedBodies : NotCalled /\ delegatePut("put", StatusEndpoint, b)
    \/ \E c \in DOMAIN calls, st \in Statuses, t \in OpResponseBodies :
          fetchResolves(c, st, t)
    \/ \E c \in DOMAIN calls, r \in NetworkFailures : operationRejected(c, r)
    \/ \E c \in DOMAIN calls : operationSettled(c)
    \/ \E c \in DOMAIN calls : callerCancels(c)
    \/ \E i \in DOMAIN sources : streamOpened(i)
    \/ \E i \in DOMAIN sources, rs \in {"connecting", "closed"} : streamDropped(i, rs)
    \/ \E i \in DOMAIN sources : callerCloses(i)

SpecOps == InitOps /\ [][NextOps]_vars

----------------------------------------------------------------------------
(* Claims about the dispatcher, checked under Spec.                        *)

\* a Response has arrived for the call (fetch resolved)
HasResponse(c) == c.status # 0

NonOk(c) == HasResponse(c) /\ (c.status < 200 \/ c.status > 299)

CarriesCredential(headers) ==
    "X-Access-Token" \in DOMAIN headers /\ headers["X-Access-Token"] = apiKey

\* C1: every request handed to the transport, by request() or by stream(),
\* carries the credential given at construction under X-Access-Token.
C1_EveryRequestCarriesCredential ==
    /\ \A i \in DOMAIN calls : \A k \in DOMAIN calls[i].fetched :
          CarriesCredential(calls[i].fetched[k].headers)
    /\ \A i \in DOMAIN sources : CarriesCredential(sources[i].headers)

\* C2: a call whose response status is not 2xx never reaches the decoding of
\* the body by the requested shape and never resolves; once settled it is
\* rejected, for every verb, shape and body.
C2_NonOkRejects ==
    \A i \in DOMAIN calls :
        NonOk(calls[i]) =>
            /\ calls[i].pc # "body"
            /\ calls[i].outcome.state # "resolved"
            /\ (calls[i].pc = "done" => calls[i].outcome.state = "rejected")

\* C2's case: a GET asking for raw bytes and a POST, both answered 404, one
\* with a body that is not JSON and one with a JSON body, both rejected.
C2_Witness ==
    \E i, j \in DOMAIN calls :
        /\ calls[i].method = "GET" /\ calls[i].responseType = "arraybuffer"
        /\ calls[i].status = 404 /\ JSONparse(calls[i].resBody) = "SyntaxError"
        /\ calls[i].outcome.state = "rejected"
        /\ calls[j].method = "POST"
        /\ calls[j].status = 404 /\ JSONparse(calls[j].resBody) # "SyntaxError"
        /\ calls[j].outcome.state = "rejected"

\* C3: the error of a non-2xx response carries the status code with the
\* description parsed from the body, or with the raw body text when the body
\* is not JSON.
C3_ErrorCarriesStatusAndBody ==
    \A i \in DOMAIN calls :
        (NonOk(calls[i]) /\ calls[i].pc = "done") =>
            /\ calls[i].outcome.state = "rejected"
            /\ calls[i].outcome.status = calls[i].status
            /\ calls[i].outcome.detail =
                  IF JSONparse(calls[i].resBody) # "SyntaxError"
                  THEN JSONstringify(JSONparse(calls[i].resBody))
                  ELSE calls[i].resBody

\* C4: every invocation of get, post, put or delete has handed exactly one
\* request to the transport, whatever became of it.
C4_ExactlyOneFetch ==
    \A i \in DOMAIN calls : Len(calls[i].fetched) = 1

\* C4's case: one call failed at the network level and another was answered
\* with a non-2xx status, both settled.
C4_Witness ==
    \E i, j \in DOMAIN calls :
        /\ calls[i].pc = "done" /\ calls[i].outcome.name = "FetchError"
        /\ calls[j].pc = "done" /\ NonOk(calls[j])
        /\ Len(calls[i].fetched) = 1 /\ Len(calls[j].fetched) = 1

SameArgs(c, d) ==
    /\ c.method = d.method
    /\ c.endpoint = d.endpoint
    /\ c.body = d.body
    /\ c.headers = d.headers
    /\ c.responseType = d.responseType

SameResponse(c, d) ==
    c.status = d.status /\ c.resBody = d.resBody /\ c.failure = d.failure

\* C5: two calls of one history with the same arguments issue the same
\* request, and when they receive the same transport response they settle
\* the same way, whatever calls came before each of them.
C5_Stateless ==
    \A i, j \in DOMAIN calls :
        SameArgs(calls[i], calls[j]) =>
            /\ calls[i].fetched = calls[j].fetched
            /\ (calls[i].pc = "done" /\ calls[j].pc = "done"
                  /\ SameResponse(calls[i], calls[j]))
               => calls[i].outcome = calls[j].outcome

\* C5's case: the second call repeats the first one's arguments and gets the
\* same response, after the first one has failed.
C5_Witness ==
    /\ Len(calls) >= 2
    /\ SameArgs(calls[1], calls[2])
    /\ calls[1].pc = "done" /\ calls[2].pc = "done"
    /\ SameResponse(calls[1], calls[2])
    /\ calls[1].outcome.state = "rejected"

\* C6: every call in flight has sent the URL, method, headers and body built
\* from its own arguments, and a settled call carries the outcome of its own
\* response.
C6_OwnRequestOwnOutcome ==
    \A i \in DOMAIN calls :
        LET c == calls[i]
            r == c.fetched[1]
        IN  /\ r.url = apiUrl \o c.endpoint
            /\ r.method = c.method
            /\ \A n \in DOMAIN c.headers : r.headers[n] = c.headers[n]
            /\ DOMAIN r.headers = {"Content-Type", "X-Access-Token"} \cup DOMAIN c.headers
            /\ r.body \in {Undefined, JSONstringify(c.body)}
            /\ (c.pc = "done" /\ ~HasResponse(c)) => c.outcome.name = "FetchError"
            /\ (c.pc = "done" /\ HasResponse(c)) =>
                  CASE c.outcome.name = "Error"    -> c.outcome.status = c.status
                    [] c.outcome.name = "json"     -> c.outcome.value = JSONparse(c.resBody)
                    [] c.outcome.name = "string"   ->
                                          c.outcome.value = utf8Decode(c.resBody)
                    [] c.outcome.name = "ArrayBuffer" -> c.outcome.value = c.resBody
                    [] OTHER -> JSONparse(c.resBody) = "SyntaxError"

\* C6's case: two calls with different arguments were in flight together, the
\* later one has settled on its response while the earlier one, answered
\* differently, has not settled yet.
C6_Witness ==
    /\ Len(calls) >= 2
    /\ ~SameArgs(calls[1], calls[2])
    /\ calls[1].pc \in {"error", "body"}
    /\ calls[2].pc = "done" /\ HasResponse(calls[2])
    /\ ~SameResponse(calls[1], calls[2])

----------------------------------------------------------------------------
(* Claims about the resource modules, checked under SpecModules.           *)

count(s, c) == Cardinality({ i \in DOMAIN s : s[i] = c })

\* the index of the last c in s, 0 when there is none
lastIndexOf(s, c) ==
    IF \E i \in DOMAIN s : s[i] = c
    THEN CHOOSE i \in DOMAIN s : s[i] = c /\ \A j \in DOMAIN s : s[j] = c => j <= i
    ELSE 0

firstIndexOf(s, c) ==
    IF \E i \in DOMAIN s : s[i] = c
    THEN CHOOSE i \in DOMAIN s : s[i] = c /\ \A j \in DOMAIN s : s[j] = c => i <= j
    ELSE 0

RECURSIVE splitOn(_, _)
\* s.split(sep)
splitOn(s, sep) ==
    LET k == firstIndexOf(s, sep)
    IN  IF k = 0 THEN <<s>>
        ELSE <<SubSeq(s, 1, k - 1)>> \o splitOn(SubSeq(s, k + 1, Len(s)), sep)

\* the query string of a path: what follows its last "?"
queryOf(path) == SubSeq(path, lastIndexOf(path, "?") + 1, Len(path))

\* the name=value pairs of a query string, each split at "="
pairsOf(query) ==
    LET parts == splitOn(query, "&")
    IN  [i \in DOMAIN parts |-> splitOn(parts[i], "=")]

RECURSIVE pctDecode(_)
\* decodeURIComponent on the encodings of the model's reserved characters
pctDecode(s) ==
    IF s = << >> THEN << >>
    ELSE IF Head(s) = "%" /\ Len(s) >= 3
         THEN LET hit == { c \in Reserved : pctCode(c) = SubSeq(s, 1, 3) }
              IN  (IF hit = {} THEN <<"%">> ELSE <<CHOOSE c \in hit : TRUE>>)
                  \o pctDecode(SubSeq(s, IF hit = {} THEN 2 ELSE 4, Len(s)))
         ELSE <<Head(s)>> \o pctDecode(Tail(s))

RECURSIVE parseDecimal(_)
\* the number a text of decimal digits denotes, -1 when a code unit is no digit
parseDecimal(s) ==
    IF s = << >> THEN 0
    ELSE LET d    == { k \in 0..9 : Digits[k + 1] = s[Len(s)] }
             rest == parseDecimal(sliceLast(s))
         IN  IF d = {} \/ rest < 0 THEN -1 ELSE 10 * rest + (CHOOSE k \in d : TRUE)

Called == modcall.op # "none" /\ modcall.thrown = ""

\* C7: a key whose value is undefined does not appear in the query string of
\* the request path.
C7_UndefinedOmitted ==
    (Called /\ input.params.given) =>
        \A i \in DOMAIN input.params.entries :
            input.params.entries[i].value.t = "undefined" =>
                \A k \in DOMAIN pairsOf(queryOf(modcall.path)) :
                    pairsOf(queryOf(modcall.path))[k][1] # input.params.entries[i].key

\* C8: the properties present are written after a leading "?" as key=value
\* pairs joined by "&", in the order supplied, a boolean as true/false and a
\* number as its decimal text.
C8_PairsInOrder ==
    (Called /\ input.params.given /\ Len(input.params.entries) >= 1) =>
        LET entries == input.params.entries
            pairs   == pairsOf(queryOf(modcall.path))
        IN  /\ lastIndexOf(modcall.path, "?") > 0
            /\ Len(pairs) = Len(entries)
            /\ \A i \in DOMAIN entries :
                  LET v == entries[i].value
                  IN  /\ Len(pairs[i]) = 2
                      /\ pairs[i][1] = entries[i].key
                      /\ v.t = "boolean" =>
                            pairs[i][2] = IF v.b THEN <<"t","r","u","e">>
                                          ELSE <<"f","a","l","s","e">>
                      /\ v.t = "number" =>
                            /\ parseDecimal(pairs[i][2]) = v.n
                            /\ (Len(pairs[i][2]) > 1 => pairs[i][2][1] # "0")
                      /\ (v.t = "string" /\ \A k \in DOMAIN v.s : v.s[k] \notin Reserved) =>
                            pairs[i][2] = v.s

\* C8's case: listUsers({limit: 10, showHidden: true}) has asked for
\* "/users?limit=10&showHidden=true".
C8_Witness ==
    /\ modcall.op = "listUsers"
    /\ Len(input.params.entries) = 2
    /\ input.params.entries[1].value = JsNumber(10)
    /\ input.params.entries[2].value = JsBoolean(TRUE)
    /\ modcall.path = <<"/","u","s","e","r","s","?","l","i","m","i","t","=","1","0","&",
                        "s","h","o","w","H","i","d","d","e","n","=","t","r","u","e">>

\* the "/" of the operation's path template
templateSlashes(op) ==
    CASE op = "getUser"     -> 2
      [] op = "getMailbox"  -> 4
      [] OTHER              -> 3

\* C9: an identifier substituted into a path template occupies exactly one
\* path segment: it adds no "/", starts no query string and no fragment.
C9_IdentifierIsOneSegment ==
    (Called /\ modcall.op # "listUsers") =>
        /\ count(modcall.path, "/") = templateSlashes(modcall.op)
        /\ count(modcall.path, "#") = 0
        /\ count(modcall.path, "?") = IF input.params.given THEN 1 ELSE 0

\* the text "/addresses/resolve/"
ResolvePrefix ==
    <<"/","a","d","d","r","e","s","s","e","s","/","r","e","s","o","l","v","e","/">>

\* the path is "/addresses/resolve/", then the address percent-encoded into a
\* single segment, then the serialised query, and it went out as one GET
ResolvedAsOneSegment ==
    LET path    == modcall.path
        n       == Len(ResolvePrefix)
        rest    == SubSeq(path, n + 1, Len(path))
        q       == firstIndexOf(rest, "?")
        segment == IF q = 0 THEN rest ELSE SubSeq(rest, 1, q - 1)
        query   == IF q = 0 THEN << >> ELSE SubSeq(rest, q, Len(rest))
    IN  /\ modcall.thrown = ""
        /\ modcall.verb = "GET"
        /\ Len(calls) = 1 /\ calls[1].method = "GET" /\ calls[1].endpoint = path
        /\ Len(path) >= n /\ SubSeq(path, 1, n) = ResolvePrefix
        /\ \A i \in DOMAIN segment : segment[i] \notin {"/", "?", "#", "@"}
        /\ pctDecode(segment) = input.id
        /\ query = queryIfParams(input.params)

\* C10 as stated: resolveAddressInfo issues that GET for every address string.
C10_EveryAddress ==
    modcall.op = "resolveAddressInfo" => ResolvedAsOneSegment

\* C10 as amended: resolveAddressInfo issues that GET for every address that
\* holds no lone surrogate.
C10_WellFormedAddress ==
    (modcall.op = "resolveAddressInfo"
       /\ \A i \in DOMAIN input.id : input.id[i] # LoneSurrogate)
    => ResolvedAsOneSegment

\* C10's case: the address "/@" with a query-parameter object has been resolved.
C10_Witness ==
    /\ modcall.op = "resolveAddressInfo"
    /\ input.id = <<"/","@">>
    /\ input.params.given /\ Len(input.params.entries) >= 1
    /\ modcall.path =
          ResolvePrefix \o <<"%","2","F","%","4","0">> \o queryIfParams(input.params)

----------------------------------------------------------------------------
(* Claims about the constructor, the decoding and the operations' outcomes, *)
(* checked under Spec (C13) and SpecOps.                                    *)

\* C11: for every base URL given to the constructor the stored base endpoint
\* does not end with "/", and every request URL is the stored base endpoint
\* followed by the endpoint path.
C11_BaseEndpointNormalized ==
    /\ ~endsWith(apiUrl, "/")
    /\ \A i \in DOMAIN calls :
          calls[i].fetched[1].url = apiUrl \o calls[i].endpoint

Resolved(name, value) ==
    [state |-> "resolved", name |-> name, status |-> 0, detail |-> "", value |-> value]

\* C12: a call answered 2xx settles by the shape its caller asked for: get
\* with "text" resolves with the body decoded to a string, get with
\* "arraybuffer" with the bytes of the body, and get with no shape or "json",
\* post, put and delete with the value parsed from the body as JSON.
C12_DecodedByShape ==
    \A i \in DOMAIN calls :
        LET c    == calls[i]
            text == utf8Decode(c.resBody)
        IN  (c.pc = "done" /\ HasResponse(c) /\ ok(c.status)) =>
                CASE c.method = "GET" /\ c.shape = "text" ->
                        c.outcome = Resolved("string", text)
                  [] c.method = "GET" /\ c.shape = "arraybuffer" ->
                        c.outcome = Resolved("ArrayBuffer", c.resBody)
                  [] OTHER ->
                        /\ c.shape \in {Undefined, "json"}
                        /\ JSONparse(text) # "SyntaxError" =>
                              c.outcome = Resolved("json", JSONparse(text))

\* C12's case: a get that passed no shape has resolved with the parsed JSON.
C12_Witness ==
    /\ modcall.op = "listMailboxes" /\ modcall.shape = Undefined
    /\ Len(calls) = 1 /\ calls[1].shape = Undefined
    /\ calls[1].status = 200 /\ calls[1].resBody = "{\"success\":true}"
    /\ calls[1].outcome = Resolved("json", "{success:true}")

\* C13: a call asking for JSON that is answered 2xx with a body that is not
\* JSON rejects; it does not resolve.
C13_BadJsonRejects ==
    \A i \in DOMAIN calls :
        LET c == calls[i]
        IN  (c.pc = "done" /\ HasResponse(c) /\ ok(c.status)
               /\ c.responseType = "json"
               /\ JSONparse(utf8Decode(c.resBody)) = "SyntaxError")
            => /\ c.outcome.state = "rejected"
               /\ c.outcome.name = "SyntaxError"

\* C13's case: a post answered 200 with an HTML page has settled.
C13_Witness ==
    \E i \in DOMAIN calls :
        /\ calls[i].method = "POST" /\ calls[i].pc = "done"
        /\ calls[i].status = 200 /\ calls[i].resBody = "<html>Bad Gateway</html>"
        /\ calls[i].outcome.state = "rejected"

\* C14: when fetch rejects, the call rejects with what fetch rejected with
\* and no status code, after that one attempt, and the operation that made
\* the call rejects with the same.
C14_NetworkFailurePropagates ==
    \A i \in DOMAIN calls :
        LET c == calls[i]
        IN  c.failure # "" =>
              /\ c.pc = "done"
              /\ c.outcome = [state |-> "rejected", name |-> "FetchError", status |-> 0,
                              detail |-> c.failure, value |-> ""]
              /\ Len(c.fetched) = 1 /\ Len(calls) = 1
              /\ modcall.outcome = c.outcome

\* C14's case: the fetch of downloadAttachment has timed out.
C14_Witness ==
    /\ modcall.op = "downloadAttachment"
    /\ Len(calls) = 1 /\ calls[1].failure = "ETIMEDOUT"
    /\ modcall.outcome.state = "rejected" /\ modcall.outcome.detail = "ETIMEDOUT"

\* the operation's promise has settled
Settled == modcall.op # "none" /\ modcall.outcome.state # "pending"

\* downloadAttachment called for the bytes (sendAsString not truthy)
BinaryDownload == modcall.op = "downloadAttachment" /\ ~truthy(input.flag)

\* C15 as stated: every operation settles exactly as its dispatcher call
\* settled, value for value and error for error.
C15_OutcomeIsDispatchers ==
    \A i \in DOMAIN calls :
        /\ (calls[i].pc = "done") = Settled
        /\ Settled => modcall.outcome = calls[i].outcome

\* C15 as amended: every operation settles exactly as its dispatcher call
\* settled, except that downloadAttachment called for the bytes resolves with
\* a Buffer over the bytes of the ArrayBuffer the dispatcher resolved with.
C15_OutcomeIsDispatchersOrItsBuffer ==
    \A i \in DOMAIN calls :
        /\ (calls[i].pc = "done") = Settled
        /\ Settled =>
              IF BinaryDownload /\ calls[i].outcome.state = "resolved"
              THEN modcall.outcome = Resolved("Buffer", calls[i].outcome.value)
              ELSE modcall.outcome = calls[i].outcome

\* C15's case: listMailboxes has rejected with the Error of a 404 answer.
C15_Witness ==
    /\ modcall.op = "listMailboxes" /\ Len(calls) = 1
    /\ calls[1].status = 404
    /\ calls[1].outcome.state = "rejected" /\ calls[1].outcome.name = "Error"
    /\ modcall.outcome = calls[1].outcome

endsWithText(s, t) ==
    Len(s) >= Len(t) /\ SubSeq(s, Len(s) - Len(t) + 1, Len(s)) = t

\* C17: downloadAttachment with a truthy sendAsString asks for a path ending
\* in "?sendAsString=true" with the "text" shape and returns a string;
\* otherwise it asks for a path with no query with the "arraybuffer" shape
\* and returns a Buffer.
C17_FlagShapeTypeAgree ==
    modcall.op = "downloadAttachment" =>
        /\ Len(calls) = 1 /\ calls[1].endpoint = modcall.path
        /\ calls[1].responseType = modcall.shape
        /\ IF truthy(input.flag)
           THEN /\ endsWithText(modcall.path, <<"?","s","e","n","d","A","s","S","t","r","i","n","g","=","t","r","u","e">>)
                /\ count(modcall.path, "?") = 1
                /\ modcall.shape = "text"
                /\ modcall.outcome.state = "resolved" => modcall.outcome.name = "string"
           ELSE /\ count(modcall.path, "?") = 0
                /\ modcall.shape = "arraybuffer"
                /\ modcall.outcome.state = "resolved" => modcall.outcome.name = "Buffer"

\* C17's case: downloadAttachment(..., true) has returned a string.
C17_Witness ==
    /\ modcall.op = "downloadAttachment" /\ input.flag = JsBoolean(TRUE)
    /\ modcall.shape = "text"
    /\ modcall.outcome.state = "resolved" /\ modcall.outcome.name = "string"

\* the segments of a path: the texts between its "/", the query left out
segments(path) ==
    LET q == firstIndexOf(path, "?")
    IN  splitOn(IF q = 0 THEN path ELSE SubSeq(path, 1, q - 1), "/")

\* C18: listAuthEvents and getAuthEvent put "me" in the user segment when
\* useOwnToken is true and the given user otherwise; recalculateUserQuota and
\* resetPassword put "me" when userId is absent or empty and the given userId
\* otherwise.
C18_SentinelIsMe ==
    LET user == segments(modcall.path)[3]
        me   == <<"m","e">>
    IN  /\ modcall.op \in {"listAuthEvents", "getAuthEvent"} =>
              /\ input.flag = JsBoolean(TRUE) => user = me
              /\ (input.flag # JsBoolean(TRUE) /\ input.userId.t = "string") =>
                    user = input.userId.s
        /\ modcall.op \in {"recalculateUserQuota", "resetPassword"} =>
              IF input.userId.t = "undefined" \/ input.userId.s = << >>
              THEN user = me
              ELSE user = input.userId.s

\* C18's case: recalculateUserQuota(undefined) has posted to
\* "/users/me/quota/reset".
C18_Witness ==
    /\ modcall.op = "recalculateUserQuota" /\ input.userId = JsUndefined
    /\ modcall.path = <<"/","u","s","e","r","s","/","m","e","/","q","u","o","t","a","/","r","e","s","e","t">>
    /\ Len(calls) = 1 /\ calls[1].endpoint = modcall.path

\* the operations whose path holds no user
NoUserInPath ==
    { "listUsers", "createUser", "recalculateAllUsersQuota",
      "listAddresses", "createForwardedAddress",
      "updateForwardedAddress", "deleteForwardedAddress",
      "getForwardedAddressInfo", "preAuth", "authenticate",
      "invalidateToken" }

\* an operation of a resource module was applied to a user identifier of
\* ordinary alphanumerics, with no query parameters
PlainIdentifiers ==
    /\ Called /\ modcall.op \notin {"get", "post", "put"}
    /\ input.userId.t = "string" /\ input.userId.s \in AlnumIds
    /\ input.params = NoParams
    /\ ~(modcall.op = "downloadAttachment" /\ truthy(input.flag))

\* the path handed to the dispatcher is a template with the identifiers in it:
\* non-empty segments after a leading "/", none of them "undefined", no query
\* and no escape, the user among the segments, and the paths the unit tests
\* expect for the identifiers they use
PathIsTemplate ==
    LET path == modcall.path
        segs == segments(path)
        user == IF modcall.op \in {"listAuthEvents", "getAuthEvent"} /\ truthy(input.flag)
                THEN <<"m","e">> ELSE input.userId.s
    IN  /\ Len(segs) >= 2 /\ segs[1] = << >>
        /\ \A k \in 2..Len(segs) :
              segs[k] # << >> /\ segs[k] # toUSVString(JsUndefined)
        /\ \A i \in DOMAIN path : path[i] \notin {"?", "#", "&", "=", "%"}
        /\ modcall.op \notin NoUserInPath => \E k \in 2..Len(segs) : segs[k] = user
        /\ (modcall.op = "listMailboxes" /\ input.userId.s = <<"1","2","3","4","5">>) =>
              path = <<"/","u","s","e","r","s","/","1","2","3","4","5","/","m","a","i","l","b","o","x","e","s">>
        /\ (modcall.op = "getUser" /\ input.userId.s = <<"1","2","3","4","5">>) =>
              path = <<"/","u","s","e","r","s","/","1","2","3","4","5">>
        /\ (modcall.op = "deleteMessage" /\ input.userId.s = <<"u","s","e","r","1","2","3">>) =>
              path = <<"/","u","s","e","r","s","/","u","s","e","r","1","2","3","/","m","a","i","l","b","o","x","e","s","/","m","a","i","l","b","o","x","4","5","6">>
                     \o <<"/","m","e","s","s","a","g","e","s","/","7","8","9">>
        /\ \A i \in DOMAIN calls : calls[i].endpoint = path

\* the arguments a verb takes when nothing is added: the path, and the body
\* for post and put
ArgsOfVerb(verb) == IF verb \in {"POST", "PUT"} THEN 2 ELSE 1

\* C19 as stated: with identifiers of ordinary alphanumerics and no query
\* parameters every operation hands the dispatcher the template with the
\* identifiers substituted, with no query string, and no argument besides.
C19_TemplateAndNothingElse ==
    PlainIdentifiers =>
        /\ PathIsTemplate
        /\ modcall.nargs = ArgsOfVerb(modcall.verb)

\* C19 as amended: the same, except that getMessageSource and
\* downloadAttachment also pass empty headers and the "arraybuffer" shape, and
\* openChangeStream passes its params argument on to stream.
C19_TemplateAndOwnArguments ==
    PlainIdentifiers =>
        /\ PathIsTemplate
        /\ CASE modcall.op \in {"getMessageSource", "downloadAttachment"} ->
                    modcall.nargs = 3 /\ modcall.shape = "arraybuffer"
             [] modcall.op = "openChangeStream" -> modcall.nargs = 2
             [] OTHER -> modcall.nargs = ArgsOfVerb(modcall.verb)

\* C19's case: deleteMessage("user123", "mailbox456", 789) has asked for
\* "/users/user123/mailboxes/mailbox456/messages/789" and nothing else.
C19_Witness ==
    /\ modcall.op = "deleteMessage" /\ input.params = NoParams
    /\ input.userId.s = <<"u","s","e","r","1","2","3">>
    /\ modcall.path = <<"/","u","s","e","r","s","/","u","s","e","r","1","2","3","/","m","a","i","l","b","o","x","e","s","/","m","a","i","l","b","o","x","4","5","6">>
                      \o <<"/","m","e","s","s","a","g","e","s","/","7","8","9">>
    /\ modcall.nargs = 1

\* the operations named list..., get..., search... or resolve...
ReadOps ==
    { "listMailboxes", "getMailbox", "listMessages", "searchMessages",
      "searchAndUpdateMessages", "getMessageInfo", "getMessageSource",
      "listUsers", "resolveUser", "getUser", "getRecoveryInfo",
      "listAddresses", "listUserAddresses", "getAddress",
      "listAddressesFromRegister", "getForwardedAddressInfo",
      "resolveAddressInfo", "listAuthEvents", "getAuthEvent" }

\* the operations named create..., upload..., submit..., forward... or reset...
CreateOps ==
    { "createMailbox", "submitMessage", "uploadMessage",
      "forwardMessage", "submitDraft", "createUser", "resetPassword",
      "createAddress", "createForwardedAddress" }

\* the operations named update... or logout...
UpdateOps ==
    { "updateMailbox", "updateMessages", "updateMessage", "updateUser",
      "logoutUser", "updateAddress", "updateForwardedAddress" }

\* the operations named delete... or invalidate...
DeleteOps ==
    { "deleteMailbox", "deleteMessages", "deleteMessage",
      "deleteOutboundMessage", "deleteUser", "deleteAddress",
      "deleteForwardedAddress", "invalidateToken" }

\* the operation has called the method of that verb, once, and no other
CallsOnly(verb) ==
    /\ modcall.verb = verb
    /\ Len(sources) = 0
    /\ Len(calls) = 1 /\ calls[1].method = verb
    /\ Len(calls[1].fetched) = 1 /\ calls[1].fetched[1].method = verb

\* C20 as stated: an operation calls only the verb of its name's kind.
C20_VerbByName ==
    Called =>
        /\ modcall.op \in ReadOps => CallsOnly("GET")
        /\ modcall.op \in CreateOps => CallsOnly("POST")
        /\ modcall.op \in UpdateOps => CallsOnly("PUT")
        /\ modcall.op \in DeleteOps => CallsOnly("DELETE")

\* C20 as amended: the same, except that searchAndUpdateMessages calls only
\* post.
C20_VerbByNameButSearchAndUpdate ==
    Called =>
        /\ modcall.op \in ReadOps \ {"searchAndUpdateMessages"} => CallsOnly("GET")
        /\ modcall.op = "searchAndUpdateMessages" => CallsOnly("POST")
        /\ modcall.op \in CreateOps => CallsOnly("POST")
        /\ modcall.op \in UpdateOps => CallsOnly("PUT")
        /\ modcall.op \in DeleteOps => CallsOnly("DELETE")

\* C20's case: logoutUser has issued one PUT, which was answered.
C20_Witness ==
    /\ modcall.op = "logoutUser" /\ CallsOnly("PUT")
    /\ calls[1].pc = "done" /\ HasResponse(calls[1])

----------------------------------------------------------------------------
(* Claims about the request headers (Spec), the renaming of a domain, the  *)
(* stream and cancellation (SpecOps).                                      *)

\* the fixed default headers of a request
DefaultHeaders ==
    ("Content-Type" :> "application/json") @@ ("X-Access-Token" :> apiKey)

\* C21: the headers of every request handed to the transport are the two
\* defaults merged with the caller's headers: a caller's header named like a
\* default carries the caller's value, a default the caller did not name
\* carries its default value, and every header of the caller is there with
\* the caller's value; no other header is sent.
C21_HeadersMerged ==
    \A i \in DOMAIN calls : \A k \in DOMAIN calls[i].fetched :
        LET sent   == calls[i].fetched[k].headers
            caller == calls[i].headers
        IN  /\ DOMAIN sent = DOMAIN DefaultHeaders \cup DOMAIN caller
            /\ \A n \in DOMAIN caller : sent[n] = caller[n]
            /\ \A n \in DOMAIN DefaultHeaders \ DOMAIN caller :
                  sent[n] = DefaultHeaders[n]

\* C21's case: a request whose caller replaced one default, left the other
\* alone and added a header of its own.
C21_Witness ==
    \E i \in DOMAIN calls :
        LET sent   == calls[i].fetched[1].headers
            caller == calls[i].headers
        IN  /\ "X-Access-Token" \in DOMAIN caller
            /\ caller["X-Access-Token"] # apiKey
            /\ sent["X-Access-Token"] = caller["X-Access-Token"]
            /\ "Content-Type" \notin DOMAIN caller
            /\ sent["Content-Type"] = "application/json"
            /\ \E n \in DOMAIN caller \ DOMAIN DefaultHeaders : sent[n] = caller[n]

\* "/addresses/renameDomain"
RenameDomainPath ==
    <<"/","a","d","d","r","e","s","s","e","s","/",
      "r","e","n","a","m","e","D","o","m","a","i","n">>

\* C22: renameDomainInAddresses(payload) has issued exactly one request, a PUT
\* to "/addresses/renameDomain" with the payload as its body, and once it has
\* settled its outcome is the dispatcher's.
C22_RenameDomainPuts ==
    modcall.op = "renameDomainInAddresses" =>
        /\ Len(calls) = 1
        /\ calls[1].method = "PUT"
        /\ calls[1].endpoint = RenameDomainPath
        /\ calls[1].body = input.data
        /\ modcall.verb = "PUT" /\ modcall.path = RenameDomainPath
        /\ (modcall.outcome.state # "pending" => modcall.outcome = calls[1].outcome)

C24_CancelledCallFails ==
    \A i \in DOMAIN calls :
        calls[i].cancelled =>
            /\ calls[i].pc \notin {"body", "error"}
            /\ (calls[i].pc = "done" =>
                   /\ calls[i].outcome.state = "rejected"
                   /\ calls[i].status = 0)

----------------------------------------------------------------------------
(* Claims about the query string (SpecModules, SpecOps), the settling of   *)
(* calls (SpecFair), the configuration (Spec) and the body (SpecOps).      *)

\* "path=Inbox%2FWork&sess=sess123&ip=192.168.0.1"
ExampleQuery ==
    <<"p","a","t","h","=","I","n","b","o","x","%","2","F","W","o","r","k","&",
      "s","e","s","s","=","s","e","s","s","1","2","3","&",
      "i","p","=","1","9","2",".","1","6","8",".","0",".","1">>

\* C25: in the query string of a request path no value of the parameter
\* object shows a "/", "?" or "#", and the only "&" and "=" are the ones that
\* join the pairs and part a name from its value: there are as many pairs as
\* properties, and every string value is read back from its pair by
\* percent-decoding; the parameters of the example give the example's query.
C25_ValuesFormEncoded ==
    (Called /\ input.params.given /\ Len(input.params.entries) >= 1) =>
        LET entries == input.params.entries
            query   == queryOf(modcall.path)
            pairs   == pairsOf(query)
        IN  /\ lastIndexOf(modcall.path, "?") > 0
            /\ \A c \in {"/", "?", "#"} : count(query, c) = 0
            /\ count(query, "&") = Len(entries) - 1
            /\ count(query, "=") = Len(entries)
            /\ Len(pairs) = Len(entries)
            /\ \A i \in DOMAIN entries :
                  entries[i].value.t = "string" =>
                      /\ Len(pairs[i]) = 2
                      /\ pairs[i][1] = entries[i].key
                      /\ pctDecode(pairs[i][2]) = entries[i].value.s
            /\ input.params = ExampleParams => query = ExampleQuery

\* C25's case: getMailbox with the parameters of the example, whose path
\* value holds a "/".
C25_Witness ==
    /\ modcall.op = "getMailbox"
    /\ input.params = ExampleParams
    /\ queryOf(modcall.path) = ExampleQuery
    /\ count(input.params.entries[1].value.s, "/") = 1

\* C26: a call is settled exactly when request() has run to its end, and then
\* as resolved or as rejected; once settled nothing about it changes again;
\* and under a transport that eventually answers or fails, every call made
\* is eventually settled.
C26_SettlesExactlyOnce ==
    /\ [](\A i \in DOMAIN calls :
            /\ calls[i].outcome.state \in {"pending", "resolved", "rejected"}
            /\ calls[i].pc = "done" <=> calls[i].outcome.state # "pending"
            /\ calls[i].status # 0 /\ calls[i].pc = "done" =>
                  calls[i].outcome.state \in {"resolved", "rejected"})
    /\ [][\A i \in DOMAIN calls : calls[i].pc = "done" => calls'[i] = calls[i]]_vars
    /\ \A i \in 1..MaxCalls :
          (Len(calls) >= i) ~> (Len(calls) >= i /\ calls[i].pc = "done")

\* C26's case: one call has resolved with a value and another was rejected for
\* the status of its response.
C26_Witness ==
    \E i, j \in DOMAIN calls :
        /\ calls[i].pc = "done" /\ calls[i].outcome.state = "resolved"
        /\ calls[j].pc = "done" /\ calls[j].outcome.state = "rejected"
        /\ calls[j].status = 404

\* C27: no step of any operation, of the transport or of a stream changes
\* the credential or the base endpoint the constructor set.
C27_ConfigurationUnchanged ==
    [][apiKey' = apiKey /\ apiUrl' = apiUrl]_vars

\* C27's case: a call has failed, another call or a stream has been made, and
\* the two values are the constructor's.
C27_Witness ==
    /\ \E i \in DOMAIN calls :
          calls[i].pc = "done" /\ calls[i].outcome.state = "rejected"
    /\ Len(sources) >= 1
    /\ apiKey \in ApiKeys
    /\ \E u \in BaseUrls : apiUrl = normalizeUrl(u)

\* C28: the request of a post or put that was given a body carries that body
\* as JSON text, whatever the value, and the request of a get or delete
\* carries no body.
C28_BodySentWheneverSupplied ==
    \A i \in DOMAIN calls : \A k \in DOMAIN calls[i].fetched :
        /\ (calls[i].method \in {"POST", "PUT"} /\ calls[i].body # Undefined) =>
              calls[i].fetched[k].body = JSONstringify(calls[i].body)
        /\ calls[i].method \in {"GET", "DELETE"} =>
              calls[i].fetched[k].body = Undefined

\* the empty query-parameter object, {}
EmptyParams == [given |-> TRUE, entries |-> << >>]

\* C29: an operation that was handed an empty parameter object asks for the
\* path it asks for when handed none: no "?" is in the path it hands to the
\* dispatcher, in the request's path or in the URL of the stream it opens.
C29_EmptyObjectAddsNoQuestionMark ==
    (Called /\ input.params = EmptyParams
       /\ modcall.op \notin {"get", "post", "put", "downloadAttachment"}) =>
        /\ count(modcall.path, "?") = 0
        /\ \A i \in DOMAIN calls : count(calls[i].endpoint, "?") = 0
        /\ \A i \in DOMAIN sources : count(sources[i].url, "?") = 0

====
